---- MODULE Spec2Model ----
(***************************************************************************)
(* Room booking over three socket services: the room server (rooms and     *)
(* booked room-hour slots), the activity server (activity names) and the   *)
(* reservation server, which books a room for an activity by calling the   *)
(* other two and then recording the reservation in its own table.          *)
(***************************************************************************)
EXTENDS Integers, Sequences, FiniteSets, Bags, TLC

VARIABLES
    rooms,          \* room server, table rooms(name)
    slots,          \* room server, table reservations(name, day, hour): a bag of rows
    roomUp,         \* the room server's accept loop is still running
    activities,     \* activity server, table activities(name)
    records,        \* reservation server, table reservations(id, room, activity, day, hour, duration)
    coordUp,        \* the reservation server's accept loop is still running
    pc,             \* where the reservation server's handler of the current request stands
    request,        \* the request the reservation server is handling: the sub-URL and its query
    activity_server_response,   \* get_reserve's local: what the activity server answered
    room_server_response,       \* the handler's local: what the room server answered last
    request_strings,            \* get_listavailability's local: the days still to ask for
    response_string,            \* get_listavailability's local: the labelled bodies so far
    calls,          \* the calls the current handler has made to the other two servers
    submitted,      \* for each reservation id a client was given, the request it had made
    out,            \* the last exchange with a client: the request and the bytes it received
    sent,           \* the number of requests the clients have sent
    probe,          \* the corner of the input space the clients of this run draw from
    loopAt,         \* where the room server's accept loop stands: at accept, or in a handler
    inProgress,     \* the requests the room server has accepted and not yet answered
    granted         \* the reserve requests the room server has answered 200, step by step

roomVars == <<rooms, slots, roomUp>>
coordLocals == <<request, activity_server_response, room_server_response,
                 request_strings, response_string, calls>>
coordVars == <<records, coordUp, pc, coordLocals, submitted>>
loopVars == <<loopAt, inProgress, granted>>
vars == <<roomVars, activities, coordVars, out, sent, probe, loopVars>>

----------------------------------------------------------------------------
(* Bounds of the exploration. *)

\* Largest duration a client asks for.
MaxDuration == 2
\* Largest number of requests the clients send in one run.
MaxRequests == 4

(* Program constants. *)
FirstDay == 1
LastDay == 7
FirstHour == 9
LastHour == 17
ClosingHour == 18

RoomNames == {"A101", "B202"}
ActivityNames == {"Yoga"}

\* The corners of the day/hour input space the clients of one run draw from:
\* the first and the last bookable hours of the first and the last day, and
\* the values just outside the limits the room server validates against.
Probes ==
    { [days |-> {FirstDay}, hours |-> {FirstHour, FirstHour + 1}],
      [days |-> {LastDay}, hours |-> {LastHour - 1, LastHour}],
      [days |-> {FirstDay - 1, LastDay + 1}, hours |-> {FirstHour}],
      [days |-> {LastDay}, hours |-> {FirstHour - 1, LastHour + 1}] }

Durations == 0 .. MaxDuration

\* The room server's own clients also ask for a negative duration.
EngineDurations == -1 .. MaxDuration

----------------------------------------------------------------------------
(* Responses.  A response is the status line, the <TITLE> and the <BODY> of *)
(* base_html; the body is kept as its fixed text and the values formatted  *)
(* into it.                                                                *)

Page(code, title, text, names, nums) ==
    [code |-> code, title |-> title, text |-> text, names |-> names, nums |-> nums,
     parts |-> <<>>]

\* Python's None: what a handler returns when it falls off its end.
None == Page("None", "", "", <<>>, <<>>)
\* check_parameters' "all present" result.
False == Page("False", "", "", <<>>, <<>>)
\* What a peer reads from a connection closed without a byte written.
Empty == Page("", "", "", <<>>, <<>>)

check_parameters(parameters, query) ==
    LET missing == {i \in 1 .. Len(parameters) : parameters[i] \notin DOMAIN query} IN
    IF missing = {} THEN False
    ELSE LET first == CHOOSE i \in missing : \A j \in missing : i <= j IN
         Page("400 Bad Request", "Error", "parameter is mandatory", <<parameters[first]>>, <<>>)

----------------------------------------------------------------------------
(* Room server.  db is [rooms, slots]; a handler yields [response, db].    *)

Row(name, day, hour) == <<name, day, hour>>

Reply(response, db) == [response |-> response, db |-> db]

\* A variant of get_add that deletes the reservations left under the name.
RoomServer_get_add_clears_slots(query, db) ==
    LET parameters_check == check_parameters(<<"name">>, query) IN
    IF parameters_check # False THEN Reply(parameters_check, db)
    ELSE LET room_name == query.name
             kept == {row \in BagToSet(db.slots) : row[1] # room_name}
         IN
         IF room_name \in db.rooms
         THEN Reply(Page("403 Forbidden", "Error", "Room already exists", <<>>, <<>>), db)
         ELSE Reply(Page("200 OK", "Room Added", "Room with name is successfully added.",
                         <<room_name>>, <<>>),
                    [rooms |-> db.rooms \cup {room_name},
                     slots |-> [row \in kept |-> db.slots[row]]])

RoomServer_get_add(query, db) ==
    LET parameters_check == check_parameters(<<"name">>, query) IN
    IF parameters_check # False THEN Reply(parameters_check, db)
    ELSE LET room_name == query.name IN
         IF room_name \in db.rooms
         THEN Reply(Page("403 Forbidden", "Error", "Room already exists", <<>>, <<>>), db)
         ELSE Reply(Page("200 OK", "Room Added", "Room with name is successfully added.",
                         <<room_name>>, <<>>),
                    [db EXCEPT !.rooms = @ \cup {room_name}])

\* A variant of get_remove that also deletes the room's reservations.
RoomServer_get_remove_cascade(query, db) ==
    LET parameters_check == check_parameters(<<"name">>, query) IN
    IF parameters_check # False THEN Reply(parameters_check, db)
    ELSE LET room_name == query.name
             kept == {row \in BagToSet(db.slots) : row[1] # room_name}
         IN
         IF room_name \notin db.rooms
         THEN Reply(Page("403 Forbidden", "Error", "Room does not exist", <<>>, <<>>), db)
         ELSE Reply(Page("200 OK", "Room Removed", "Room with name is successfully removed",
                         <<room_name>>, <<>>),
                    [rooms |-> db.rooms \ {room_name},
                     slots |-> [row \in kept |-> db.slots[row]]])

RoomServer_get_remove(query, db) ==
    LET parameters_check == check_parameters(<<"name">>, query) IN
    IF parameters_check # False THEN Reply(parameters_check, db)
    ELSE LET room_name == query.name IN
         IF room_name \notin db.rooms
         THEN Reply(Page("403 Forbidden", "Error", "Room does not exist", <<>>, <<>>), db)
         ELSE Reply(Page("200 OK", "Room Removed", "Room with name is successfully removed",
                         <<room_name>>, <<>>),
                    [db EXCEPT !.rooms = @ \ {room_name}])

\* The inner loop of get_reserve: one INSERT per hour of the block.
RECURSIVE InsertBlock(_, _, _, _, _)
InsertBlock(table, room_name, day, hour, duration) ==
    IF duration <= 0 THEN table
    ELSE InsertBlock(table (+) SetToBag({Row(room_name, day, hour)}),
                     room_name, day, hour + 1, duration - 1)

\* A variant of the loop that inserts the first hour of the block alone.
RoomServer_reserve_loop_first_hour_only(room_name, day, hour, duration, db) ==
    IF duration <= 0 THEN Reply(None, db)
    ELSE LET d == 0 IN
         IF BagIn(Row(room_name, day, hour + d), db.slots)
         THEN Reply(Page("403 Forbidden", "Error", "Room is already reserved at",
                         <<>>, <<hour + d>>), db)
         ELSE Reply(Page("200 OK", "Reservation Successful", "Room is succesfuly reserved.",
                         <<room_name>>, <<>>),
                    [db EXCEPT !.slots = InsertBlock(@, room_name, day, hour, 1)])

\* A variant of the loop with the INSERTs run before the SELECT.
RoomServer_reserve_loop_insert_first(room_name, day, hour, duration, db) ==
    IF duration <= 0 THEN Reply(None, db)
    ELSE LET d == 0
             inserted == [db EXCEPT !.slots = InsertBlock(@, room_name, day, hour, duration)]
         IN
         IF BagIn(Row(room_name, day, hour + d), db.slots)
         THEN Reply(Page("403 Forbidden", "Error", "Room is already reserved at",
                         <<>>, <<hour + d>>), inserted)
         ELSE Reply(Page("200 OK", "Reservation Successful", "Room is succesfuly reserved.",
                         <<room_name>>, <<>>), inserted)

\* The outer loop of get_reserve.  Its body ends in a return on every path,
\* so only the iteration d = 0 runs: the SELECT looks at hour + 0, and unless
\* that row exists the whole block is inserted.  With range(duration) empty
\* the loop body never runs and the function returns None.
RoomServer_reserve_loop(room_name, day, hour, duration, db) ==
    IF duration <= 0 THEN Reply(None, db)
    ELSE LET d == 0 IN
         IF BagIn(Row(room_name, day, hour + d), db.slots)
         THEN Reply(Page("403 Forbidden", "Error", "Room is already reserved at",
                         <<>>, <<hour + d>>), db)
         ELSE Reply(Page("200 OK", "Reservation Successful", "Room is succesfuly reserved.",
                         <<room_name>>, <<>>),
                    [db EXCEPT !.slots = InsertBlock(@, room_name, day, hour, duration)])

\* A variant of get_reserve that turns away a block ending at the closing hour.
RoomServer_get_reserve_closing_excluded(query, db) ==
    LET parameters_check == check_parameters(<<"name", "day", "hour", "duration">>, query) IN
    IF parameters_check # False THEN Reply(parameters_check, db)
    ELSE LET room_name == query.name
             day == query.day
             hour == query.hour
             duration == query.duration
         IN
         IF ~(FirstDay <= day /\ day <= LastDay)
         THEN Reply(Page("400 Bad Request", "Error", "Invalid day parameter", <<>>, <<>>), db)
         ELSE IF ~(FirstHour <= hour /\ hour <= LastHour)
         THEN Reply(Page("400 Bad Request", "Error", "Invalid hour parameter", <<>>, <<>>), db)
         ELSE IF hour + duration >= ClosingHour
         THEN Reply(Page("400 Bad Request", "Error", "Invalid duration parameter", <<>>, <<>>), db)
         ELSE IF room_name \notin db.rooms
         THEN Reply(Page("400 Bad Request", "Error", "Room does not exist", <<>>, <<>>), db)
         ELSE RoomServer_reserve_loop(room_name, day, hour, duration, db)

RoomServer_get_reserve(query, db) ==
    LET parameters_check == check_parameters(<<"name", "day", "hour", "duration">>, query) IN
    IF parameters_check # False THEN Reply(parameters_check, db)
    ELSE LET room_name == query.name
             day == query.day
             hour == query.hour
             duration == query.duration
         IN
         IF ~(FirstDay <= day /\ day <= LastDay)
         THEN Reply(Page("400 Bad Request", "Error", "Invalid day parameter", <<>>, <<>>), db)
         ELSE IF ~(FirstHour <= hour /\ hour <= LastHour)
         THEN Reply(Page("400 Bad Request", "Error", "Invalid hour parameter", <<>>, <<>>), db)
         ELSE IF hour + duration > ClosingHour
         THEN Reply(Page("400 Bad Request", "Error", "Invalid duration parameter", <<>>, <<>>), db)
         ELSE IF room_name \notin db.rooms
         THEN Reply(Page("400 Bad Request", "Error", "Room does not exist", <<>>, <<>>), db)
         ELSE RoomServer_reserve_loop(room_name, day, hour, duration, db)

\* list.remove(x): drops the first occurrence; the ValueError of an absent x
\* is caught and ignored by the caller.
RECURSIVE Remove(_, _)
Remove(list, x) ==
    IF list = <<>> THEN <<>>
    ELSE IF Head(list) = x THEN Tail(list)
    ELSE <<Head(list)>> \o Remove(Tail(list), x)

\* cursor.fetchall() of SELECT hour ... WHERE name=? AND day=?: one entry per
\* row, duplicates included.  The rows are listed by hour; the removals below
\* give the same list whatever the order.
RECURSIVE FetchHours(_, _, _, _)
FetchHours(table, room_name, day, hour) ==
    IF hour > LastHour THEN <<>>
    ELSE [i \in 1 .. CopiesIn(Row(room_name, day, hour), table) |-> hour]
         \o FetchHours(table, room_name, day, hour + 1)

RECURSIVE RemoveEach(_, _)
RemoveEach(availability, reservations) ==
    IF reservations = <<>> THEN availability
    ELSE RemoveEach(Remove(availability, Head(reservations)), Tail(reservations))

\* A variant of the hour list that stops one hour early: list(range(9, 17)).
AllHours_without_last == [i \in 1 .. (LastHour - FirstHour) |-> FirstHour + i - 1]

\* list(range(9, 18))
AllHours == [i \in 1 .. (ClosingHour - FirstHour) |-> FirstHour + i - 1]

\* A variant of get_check_availability that deletes the rows it has read.
RoomServer_get_check_availability_deleting(query, db) ==
    LET parameters_check == check_parameters(<<"name", "day">>, query) IN
    IF parameters_check # False THEN Reply(parameters_check, db)
    ELSE LET room_name == query.name
             day == query.day
             kept == {row \in BagToSet(db.slots) : row[1] # room_name \/ row[2] # day}
         IN
         IF room_name \notin db.rooms
         THEN Reply(Page("400 Bad Request", "Error", "Room Does not exist", <<>>, <<>>), db)
         ELSE IF ~(FirstDay <= day /\ day <= LastDay)
         THEN Reply(Page("400 Bad Request", "Error", "Invalid day paramater", <<>>, <<>>), db)
         ELSE LET reservations == FetchHours(db.slots, room_name, day, FirstHour)
                  availability == RemoveEach(AllHours, reservations)
              IN Reply(Page("200 OK", "Availability", "The following hours are available:",
                            <<>>, availability),
                       [db EXCEPT !.slots = [row \in kept |-> db.slots[row]]])

\* A variant of get_check_availability that validates the day before it
\* looks up the room.
RoomServer_get_check_availability_day_first(query, db) ==
    LET parameters_check == check_parameters(<<"name", "day">>, query) IN
    IF parameters_check # False THEN Reply(parameters_check, db)
    ELSE LET room_name == query.name
             day == query.day
         IN
         IF ~(FirstDay <= day /\ day <= LastDay)
         THEN Reply(Page("400 Bad Request", "Error", "Invalid day paramater", <<>>, <<>>), db)
         ELSE IF room_name \notin db.rooms
         THEN Reply(Page("400 Bad Request", "Error", "Room Does not exist", <<>>, <<>>), db)
         ELSE LET reservations == FetchHours(db.slots, room_name, day, FirstHour)
                  availability == RemoveEach(AllHours, reservations)
              IN Reply(Page("200 OK", "Availability", "The following hours are available:",
                            <<>>, availability), db)

RoomServer_get_check_availability(query, db) ==
    LET parameters_check == check_parameters(<<"name", "day">>, query) IN
    IF parameters_check # False THEN Reply(parameters_check, db)
    ELSE LET room_name == query.name
             day == query.day
         IN
         IF room_name \notin db.rooms
         THEN Reply(Page("400 Bad Request", "Error", "Room Does not exist", <<>>, <<>>), db)
         ELSE IF ~(FirstDay <= day /\ day <= LastDay)
         THEN Reply(Page("400 Bad Request", "Error", "Invalid day paramater", <<>>, <<>>), db)
         ELSE LET reservations == FetchHours(db.slots, room_name, day, FirstHour)
                  availability == RemoveEach(AllHours, reservations)
              IN Reply(Page("200 OK", "Availability", "The following hours are available:",
                            <<>>, availability), db)

RoomServer_handle_request(sub_url, query, db) ==
    IF sub_url = "/add" THEN RoomServer_get_add(query, db)
    ELSE IF sub_url = "/remove" THEN RoomServer_get_remove(query, db)
    ELSE IF sub_url = "/reserve" THEN RoomServer_get_reserve(query, db)
    ELSE IF sub_url = "/checkavailability" THEN RoomServer_get_check_availability(query, db)
    ELSE Reply(Page("400 Bad Request", "Error", "Invalid URL", <<>>, <<>>), db)

\* handle_request(server, connection) and the accept loop around it: a None
\* response makes sendall raise, the finally closes the connection unwritten
\* and the exception ends the loop.
RoomServe(sub_url, query, db) ==
    LET r == RoomServer_handle_request(sub_url, query, db) IN
    [received |-> IF r.response = None THEN Empty ELSE r.response,
     db |-> r.db,
     up |-> r.response # None]

RoomDb == [rooms |-> rooms, slots |-> slots]

\* A client's request to a server and what the client read back.
Exchange(server, sub_url, q, response) ==
    [from |-> server, sub_url |-> sub_url, query |-> q, response |-> response]

ClientSends ==
    /\ sent < MaxRequests
    /\ sent' = sent + 1

----------------------------------------------------------------------------
(* Clients talking to the room server directly. *)

\* The room server's loop serves one connection of a client.
RoomStep(sub_url, query) ==
    /\ roomUp
    /\ LET s == RoomServe(sub_url, query, RoomDb) IN
       /\ rooms' = s.db.rooms
       /\ slots' = s.db.slots
       /\ roomUp' = s.up
       /\ out' = Exchange("room", sub_url, query, s.received)
    /\ UNCHANGED <<activities, coordVars, probe, loopVars>>

RoomClient(sub_url, query) == ClientSends /\ RoomStep(sub_url, query)

RoomAdd == \E n \in RoomNames : RoomClient("/add", [name |-> n])

RoomRemove == \E n \in RoomNames : RoomClient("/remove", [name |-> n])

RoomReserve ==
    \E n \in RoomNames, d \in probe.days, h \in probe.hours, du \in Durations :
        RoomClient("/reserve", [name |-> n, day |-> d, hour |-> h, duration |-> du])

RoomCheckAvailability ==
    \E n \in RoomNames, d \in probe.days :
        RoomClient("/checkavailability", [name |-> n, day |-> d])

----------------------------------------------------------------------------
(* Activity server.  A handler yields [response, table].                   *)

ActivityServer_get_add(q, table) ==
    LET parameters_check == check_parameters(<<"name">>, q) IN
    IF parameters_check # False THEN [response |-> parameters_check, table |-> table]
    ELSE LET activity_name == q.name IN
         IF activity_name \in table
         THEN [response |-> Page("403 Forbidden", "Error", "Activity already exists", <<>>, <<>>),
               table |-> table]
         ELSE [response |-> Page("200 OK", "Activity Added", "Activity with name is added",
                                 <<activity_name>>, <<>>),
               table |-> table \cup {activity_name}]

ActivityServer_get_remove(q, table) ==
    LET parameters_check == check_parameters(<<"name">>, q) IN
    IF parameters_check # False THEN [response |-> parameters_check, table |-> table]
    ELSE LET activity_name == q.name IN
         IF activity_name \notin table
         THEN [response |-> Page("403 Forbidden", "Error", "Activity with name does not exist",
                                 <<activity_name>>, <<>>),
               table |-> table]
         ELSE [response |-> Page("200 OK", "Activity Removed", "Activity with name is removed",
                                 <<activity_name>>, <<>>),
               table |-> table \ {activity_name}]

ActivityServer_get_check(q, table) ==
    LET parameters_check == check_parameters(<<"name">>, q) IN
    IF parameters_check # False THEN [response |-> parameters_check, table |-> table]
    ELSE LET activity_name == q.name IN
         IF activity_name \in table
         THEN [response |-> Page("200 OK", "Activity Check", "Activity Exists", <<>>, <<>>),
               table |-> table]
         ELSE [response |-> Page("404 Not Found", "Activity Check", "Activity does not exist",
                                 <<>>, <<>>),
               table |-> table]

ActivityServer_handle_request(sub_url, q, table) ==
    IF sub_url = "/add" THEN ActivityServer_get_add(q, table)
    ELSE IF sub_url = "/remove" THEN ActivityServer_get_remove(q, table)
    ELSE IF sub_url = "/check" THEN ActivityServer_get_check(q, table)
    ELSE [response |-> Page("400 Bad Request", "Error", "Invalid URL", <<>>, <<>>),
          table |-> table]

ActivityClient(sub_url, q) ==
    /\ ClientSends
    /\ LET r == ActivityServer_handle_request(sub_url, q, activities) IN
       /\ activities' = r.table
       /\ out' = Exchange("activity", sub_url, q, r.response)
    /\ UNCHANGED <<roomVars, coordVars, probe, loopVars>>

ActivityAdd == \E n \in ActivityNames : ActivityClient("/add", [name |-> n])

ActivityRemove == \E n \in ActivityNames : ActivityClient("/remove", [name |-> n])

ActivityCheck == \E n \in ActivityNames : ActivityClient("/check", [name |-> n])

----------------------------------------------------------------------------
(* Reservation server.                                                     *)

day_names == <<"Monday", "Tuesday", "Wednesday", "Thursday", "Friday", "Saturday", "Sunday">>

\* list[i] of Python: counted from 0, a negative i counted from the end, and
\* an IndexError outside -len .. len-1.
PyIndex(list, i) ==
    IF 0 <= i /\ i < Len(list) THEN list[i + 1]
    ELSE IF -Len(list) <= i /\ i < 0 THEN list[Len(list) + i + 1]
    ELSE "IndexError"

\* `text in response`: the status line is the only place where the responses
\* of this model carry the text of a status.
Contains(response, text) == response.code = text

\* A variant of the test that looks for the wrong status.
ReservationServer_activity_missing_400(response) == Contains(response, "400 Bad Request")

\* Line 82: the test that ends get_reserve after the activity check.
ReservationServer_activity_missing(response) == Contains(response, "404 Not Found")

\* Lines 84-92: the request sent to the room server.
ReservationServer_room_request(q) ==
    [name |-> q.room, day |-> q.day, hour |-> q.hour, duration |-> q.duration]

\* A variant of the test that overlooks 400.
ReservationServer_room_failed_403_only(response) == Contains(response, "403 Forbidden")

\* A variant of the test that overlooks 403.
ReservationServer_room_failed_400_only(response) == Contains(response, "400 Bad Request")

\* Line 95: the test that ends get_reserve after the room server's answer.
ReservationServer_room_failed(response) ==
    Contains(response, "400 Bad Request") \/ Contains(response, "403 Forbidden")

\* A variant of the INSERT that gives every record the id of the first.
ReservationServer_insert_same_id(table, q) ==
    Append(table, [id |-> 1, room |-> q.room,
                   activity |-> q.activity, day |-> q.day, hour |-> q.hour,
                   duration |-> q.duration])

\* A variant of the INSERT with room and activity in each other's column.
ReservationServer_insert_swapped(table, q) ==
    Append(table, [id |-> Len(table) + 1, room |-> q.activity, activity |-> q.room,
                   day |-> q.day, hour |-> q.hour, duration |-> q.duration])

\* Lines 97-103: the INSERT; the INTEGER PRIMARY KEY of a table nothing is
\* deleted from is the number of rows plus one.
ReservationServer_insert(table, q) ==
    Append(table, [id |-> Len(table) + 1, room |-> q.room, activity |-> q.activity,
                   day |-> q.day, hour |-> q.hour, duration |-> q.duration])

\* Lines 93-107: get_reserve from the room server's answer on.
ReservationServer_reserve_finish(q, response, table) ==
    IF ReservationServer_room_failed(response)
    THEN [response |-> response, table |-> table]
    ELSE LET inserted == ReservationServer_insert(table, q)
             reservation_id == inserted[Len(inserted)].id
         IN [response |-> Page("200 Bad Request", "Reservation Succesfull", "Reservation ID:",
                               <<>>, <<reservation_id>>),
             table |-> inserted]

\* Lines 117-123: the requests of get_listavailability, each with its label.
ReservationServer_request_strings(q) ==
    IF "day" \in DOMAIN q
    THEN <<[name |-> q.room, day |-> q.day, label |-> PyIndex(day_names, q.day - 1)]>>
    ELSE [i \in 1 .. 7 |-> [name |-> q.room, day |-> i, label |-> PyIndex(day_names, i - 1)]]

\* A variant of the test that looks for 404 alone.
ReservationServer_list_failed_404_only(response) == Contains(response, "404 Not Found")

\* Line 135: the test that ends get_listavailability.
ReservationServer_list_failed(response) ==
    Contains(response, "404 Not Found") \/ Contains(response, "400 Bad Request")

\* Lines 139-141: the <BODY> of the room server's answer under its label.
ReservationServer_part(label, response) ==
    [day |-> label, text |-> response.text, nums |-> response.nums]

\* A variant of get_display that takes the day itself for the index.
ReservationServer_get_display_day_index(q, table) ==
    LET parameters_check == check_parameters(<<"id">>, q) IN
    IF parameters_check # False THEN parameters_check
    ELSE LET found == {i \in 1 .. Len(table) : table[i].id = q.id} IN
         IF found = {} THEN Page("404 Not Found", "", "", <<>>, <<>>)
         ELSE LET reservation == table[CHOOSE i \in found : TRUE] IN
              Page("200 OK", "Reservation Info", "Reservation Details",
                   <<reservation.room, reservation.activity,
                     PyIndex(day_names, reservation.day)>>,
                   <<reservation.hour, reservation.hour + reservation.duration,
                     reservation.duration>>)

\* Lines 147-177: get_display.
ReservationServer_get_display(q, table) ==
    LET parameters_check == check_parameters(<<"id">>, q) IN
    IF parameters_check # False THEN parameters_check
    ELSE LET reservation_id == q.id
             found == {i \in 1 .. Len(table) : table[i].id = reservation_id}
         IN
         IF found = {} THEN Page("404 Not Found", "", "", <<>>, <<>>)
         ELSE LET reservation == table[CHOOSE i \in found : TRUE]
                  room_name == reservation.room
                  activity_name == reservation.activity
                  day == reservation.day
                  hour == reservation.hour
                  duration == reservation.duration
              IN Page("200 OK", "Reservation Info", "Reservation Details",
                      <<room_name, activity_name, PyIndex(day_names, day - 1)>>,
                      <<hour, hour + duration, duration>>)

NoRequest == [sub_url |-> "", query |-> [void |-> TRUE]]

CoordIdle ==
    /\ pc' = "idle"
    /\ request' = NoRequest
    /\ request_strings' = <<>>
    /\ response_string' = <<>>

CoordRespond(response) ==
    /\ out' = Exchange("reservation", request.sub_url, request.query, response)
    /\ CoordIdle

\* An exception in the handler: the finally closes the client's connection
\* unwritten and the accept loop ends.
CoordCrash ==
    /\ pc' = "crashed"
    /\ coordUp' = FALSE
    /\ out' = Exchange("reservation", request.sub_url, request.query, Empty)
    /\ UNCHANGED <<request, request_strings, response_string>>

\* accept, and the handler up to its first connect to another server.
CoordAccept(sub_url, q) ==
    /\ coordUp /\ pc = "idle"
    /\ ClientSends
    /\ activity_server_response' = Empty
    /\ room_server_response' = Empty
    /\ calls' = <<>>
    /\ UNCHANGED <<roomVars, activities, records, submitted, probe, loopVars>>

\* /reserve: get_reserve up to the connect to the activity server.
CoordReserve ==
    /\ \E a \in ActivityNames, n \in RoomNames, d \in probe.days, h \in probe.hours,
          du \in Durations :
          LET q == [activity |-> a, room |-> n, day |-> d, hour |-> h, duration |-> du]
              parameters_check ==
                  check_parameters(<<"activity", "room", "day", "hour", "duration">>, q)
          IN
          /\ CoordAccept("/reserve", q)
          /\ IF parameters_check # False
             THEN /\ out' = Exchange("reservation", "/reserve", q, parameters_check)
                  /\ UNCHANGED <<pc, request>>
             ELSE /\ pc' = "reserve_activity"
                  /\ request' = [sub_url |-> "/reserve", query |-> q]
                  /\ UNCHANGED out
          /\ UNCHANGED <<coordUp, request_strings, response_string>>

\* The activity server serves /check, and get_reserve runs on to its return
\* or to the connect to the room server.
CoordCheckActivity ==
    /\ coordUp /\ pc = "reserve_activity"
    /\ LET q == [name |-> request.query.activity]
           r == ActivityServer_handle_request("/check", q, activities)
       IN
       /\ activity_server_response' = r.response
       /\ calls' = Append(calls, [to |-> "activity", sub_url |-> "/check", query |-> q])
       /\ IF ReservationServer_activity_missing(r.response)
          THEN CoordRespond(r.response)
          ELSE /\ pc' = "reserve_room"
               /\ UNCHANGED <<request, request_strings, response_string, out>>
    /\ UNCHANGED <<roomVars, activities, records, coordUp, submitted,
                   room_server_response, sent, probe, loopVars>>

\* The room server serves /reserve, and get_reserve runs on to its return.
\* With the room server's loop ended the connect is refused.
CoordReserveRoom ==
    /\ coordUp /\ pc = "reserve_room"
    /\ LET q == ReservationServer_room_request(request.query) IN
       /\ calls' = Append(calls, [to |-> "room", sub_url |-> "/reserve", query |-> q])
       /\ IF ~roomUp
          THEN /\ CoordCrash
               /\ UNCHANGED <<roomVars, room_server_response, records, submitted>>
          ELSE LET s == RoomServe("/reserve", q, RoomDb)
                   f == ReservationServer_reserve_finish(request.query, s.received, records)
               IN
               /\ rooms' = s.db.rooms
               /\ slots' = s.db.slots
               /\ roomUp' = s.up
               /\ room_server_response' = s.received
               /\ records' = f.table
               /\ submitted' = IF f.response.title = "Reservation Succesfull"
                               THEN LET id == f.response.nums[1] IN
                                    [i \in DOMAIN submitted \cup {id} |->
                                        IF i = id THEN request.query ELSE submitted[i]]
                               ELSE submitted
               /\ CoordRespond(f.response)
               /\ UNCHANGED coordUp
    /\ UNCHANGED <<activities, activity_server_response, sent, probe, loopVars>>

\* /listavailability: get_listavailability up to the first connect to the
\* room server.  An IndexError in the labels ends the handler before that.
CoordListAccept(q) ==
    LET parameters_check == check_parameters(<<"room">>, q)
        strings == ReservationServer_request_strings(q)
    IN
    /\ CoordAccept("/listavailability", q)
    /\ IF parameters_check # False
       THEN /\ out' = Exchange("reservation", "/listavailability", q, parameters_check)
            /\ UNCHANGED <<pc, request, coordUp, request_strings, response_string>>
       ELSE IF \E i \in 1 .. Len(strings) : strings[i].label = "IndexError"
       THEN /\ pc' = "crashed"
            /\ coordUp' = FALSE
            /\ request' = [sub_url |-> "/listavailability", query |-> q]
            /\ out' = Exchange("reservation", "/listavailability", q, Empty)
            /\ UNCHANGED <<request_strings, response_string>>
       ELSE /\ pc' = "list"
            /\ request' = [sub_url |-> "/listavailability", query |-> q]
            /\ request_strings' = strings
            /\ response_string' = <<>>
            /\ UNCHANGED <<coordUp, out>>

CoordListDay ==
    \E n \in RoomNames, d \in probe.days : CoordListAccept([room |-> n, day |-> d])

CoordListWeek ==
    \E n \in RoomNames : CoordListAccept([room |-> n])

\* One turn of get_listavailability's loop: the room server serves
\* /checkavailability and the answer is relayed or its body appended.
CoordAskAvailability ==
    /\ coordUp /\ pc = "list"
    /\ LET item == Head(request_strings)
           q == [name |-> item.name, day |-> item.day]
       IN
       /\ calls' = Append(calls, [to |-> "room", sub_url |-> "/checkavailability", query |-> q])
       /\ IF ~roomUp
          THEN /\ CoordCrash
               /\ UNCHANGED <<roomVars, room_server_response>>
          ELSE LET s == RoomServe("/checkavailability", q, RoomDb)
                   so_far == Append(response_string,
                                    ReservationServer_part(item.label, s.received))
               IN
               /\ rooms' = s.db.rooms
               /\ slots' = s.db.slots
               /\ roomUp' = s.up
               /\ room_server_response' = s.received
               /\ IF ReservationServer_list_failed(s.received)
                  THEN CoordRespond(s.received)
                  ELSE IF Len(request_strings) = 1
                  THEN CoordRespond([Page("200 OK", "Availabilities", "For", <<>>, <<>>)
                                        EXCEPT !.parts = so_far])
                  ELSE /\ request_strings' = Tail(request_strings)
                       /\ response_string' = so_far
                       /\ UNCHANGED <<pc, request, out>>
               /\ UNCHANGED coordUp
    /\ UNCHANGED <<activities, activity_server_response, records, submitted, sent, probe, loopVars>>

\* /display: get_display, which calls no other server.
CoordDisplay ==
    \E id \in 0 .. Len(records) + 1 :
        /\ CoordAccept("/display", [id |-> id])
        /\ out' = Exchange("reservation", "/display", [id |-> id],
                           ReservationServer_get_display([id |-> id], records))
        /\ UNCHANGED <<coordUp, pc, request, request_strings, response_string>>

----------------------------------------------------------------------------

NoOutput == Exchange("", "", [void |-> TRUE], Empty)

Init ==
    /\ rooms = {}
    /\ slots = EmptyBag
    /\ roomUp = TRUE
    /\ activities = {}
    /\ records = <<>>
    /\ coordUp = TRUE
    /\ pc = "idle"
    /\ request = NoRequest
    /\ activity_server_response = Empty
    /\ room_server_response = Empty
    /\ request_strings = <<>>
    /\ response_string = <<>>
    /\ calls = <<>>
    /\ submitted = <<>>
    /\ out = NoOutput
    /\ sent = 0
    /\ probe \in Probes
    /\ loopAt = "accept"
    /\ inProgress = {}
    /\ granted = {}

Next ==
    \/ RoomAdd
    \/ RoomRemove
    \/ RoomReserve
    \/ RoomCheckAvailability
    \/ ActivityAdd
    \/ ActivityRemove
    \/ ActivityCheck
    \/ CoordReserve
    \/ CoordCheckActivity
    \/ CoordReserveRoom
    \/ CoordListDay
    \/ CoordListWeek
    \/ CoordAskAvailability
    \/ CoordDisplay

Spec == Init /\ [][Next]_vars

----------------------------------------------------------------------------
(* The three servers with their loops scheduled: a connection that waits    *)
(* in a running server's accept is served (main.py starts each loop in its  *)
(* own thread).  A loop that an exception has ended serves nothing more.    *)

SpecLive ==
    /\ Init
    /\ [][Next]_vars
    /\ WF_vars(CoordCheckActivity)
    /\ WF_vars(CoordReserveRoom)
    /\ WF_vars(CoordAskAvailability)

----------------------------------------------------------------------------
(* The room server alone, its clients sending any number of requests. *)

EngineClient(sub_url, query) == RoomStep(sub_url, query) /\ UNCHANGED sent

EngineAdd == \E n \in RoomNames : EngineClient("/add", [name |-> n])

EngineRemove == \E n \in RoomNames : EngineClient("/remove", [name |-> n])

EngineReserve ==
    \E n \in RoomNames, d \in probe.days, h \in probe.hours, du \in EngineDurations :
        EngineClient("/reserve", [name |-> n, day |-> d, hour |-> h, duration |-> du])

EngineCheckAvailability ==
    \E n \in RoomNames, d \in probe.days :
        EngineClient("/checkavailability", [name |-> n, day |-> d])

NextEngine ==
    \/ EngineAdd
    \/ EngineRemove
    \/ EngineReserve
    \/ EngineCheckAvailability

SpecEngine == Init /\ [][NextEngine]_vars

----------------------------------------------------------------------------
(* The room server alone, get_reserve taken statement by statement: the    *)
(* SELECT of the loop, each INSERT with its commit, the return.  The       *)
(* accept loop calls handle_request itself, so it is back at accept only   *)
(* when the handler has returned.                                          *)

\* A variant in which the loop hands the connection to a thread of its own
\* and goes straight back to accept.
LoopAfterAccept_thread_per_connection == "accept"

\* Where the loop stands once it has accepted a connection.
LoopAfterAccept == "handle"

Handler(sub_url, query, at, d) == [sub_url |-> sub_url, query |-> query, at |-> at, d |-> d]

\* sock.accept() returns a client's connection.
LoopAccept(sub_url, query) ==
    /\ roomUp /\ loopAt = "accept"
    /\ inProgress' = inProgress \cup {Handler(sub_url, query, "start", 0)}
    /\ loopAt' = LoopAfterAccept
    /\ UNCHANGED <<roomVars, activities, coordVars, out, sent, probe, granted>>

LoopAcceptAdd == \E n \in RoomNames : LoopAccept("/add", [name |-> n])

LoopAcceptRemove == \E n \in RoomNames : LoopAccept("/remove", [name |-> n])

LoopAcceptReserve ==
    \E n \in RoomNames, d \in probe.days, h \in probe.hours, du \in EngineDurations :
        LoopAccept("/reserve", [name |-> n, day |-> d, hour |-> h, duration |-> du])

LoopAcceptCheckAvailability ==
    \E n \in RoomNames, d \in probe.days :
        LoopAccept("/checkavailability", [name |-> n, day |-> d])

\* The handler h returns and its response is sent, or sendall raises.
LoopReturn(h, s) ==
    /\ rooms' = s.db.rooms
    /\ slots' = s.db.slots
    /\ roomUp' = s.up
    /\ out' = Exchange("room", h.sub_url, h.query, s.received)
    /\ inProgress' = inProgress \ {h}
    /\ loopAt' = "accept"
    /\ UNCHANGED <<activities, coordVars, sent, probe>>

\* get_add, get_remove and get_check_availability from entry to return.
LoopHandle ==
    \E h \in inProgress :
        /\ h.sub_url # "/reserve"
        /\ LoopReturn(h, RoomServe(h.sub_url, h.query, RoomDb))
        /\ UNCHANGED granted

\* get_reserve up to the SELECT of the loop's first turn: it returns its
\* 400 or 403, or falls off its end, or goes on to the INSERTs.
LoopReserveSelect ==
    \E h \in inProgress :
        /\ h.sub_url = "/reserve" /\ h.at = "start"
        /\ LET s == RoomServe("/reserve", h.query, RoomDb) IN
           IF s.db = RoomDb
           THEN LoopReturn(h, s)
           ELSE /\ inProgress' = (inProgress \ {h}) \cup {[h EXCEPT !.at = "insert"]}
                /\ UNCHANGED <<roomVars, activities, coordVars, out, sent, probe, loopAt>>
        /\ UNCHANGED granted

\* One INSERT with its commit; after the last one get_reserve returns 200.
LoopReserveInsert ==
    \E h \in inProgress :
        /\ h.sub_url = "/reserve" /\ h.at = "insert"
        /\ LET q == h.query
               inserted == [RoomDb EXCEPT
                               !.slots = InsertBlock(@, q.name, q.day, q.hour + h.d, 1)]
           IN
           IF h.d + 1 < q.duration
           THEN /\ slots' = inserted.slots
                /\ inProgress' = (inProgress \ {h}) \cup {[h EXCEPT !.d = @ + 1]}
                /\ UNCHANGED <<rooms, roomUp, activities, coordVars, out, sent, probe,
                               loopAt, granted>>
           ELSE /\ LoopReturn(h, [received |-> RoomServer_get_reserve(
                                                    q, [RoomDb EXCEPT !.slots = EmptyBag]).response,
                                  db |-> inserted, up |-> TRUE])
                /\ granted' = granted \cup {q}

NextLoop ==
    \/ LoopAcceptAdd
    \/ LoopAcceptRemove
    \/ LoopAcceptReserve
    \/ LoopAcceptCheckAvailability
    \/ LoopHandle
    \/ LoopReserveSelect
    \/ LoopReserveInsert

SpecLoop == Init /\ [][NextLoop]_vars

----------------------------------------------------------------------------
(* The three servers with a reservation server whose INSERT may raise      *)
(* (sqlite3.Error: the file locked, the disk full).  get_reserve has no    *)
(* try around it, so the exception leaves the handler as any other does.   *)

\* A variant in which the row of the failed INSERT is in the table all the
\* same.
ReservationServer_insert_raises_row_kept(table, q) == ReservationServer_insert(table, q)

\* Lines 97-103 when execute or commit raises: the table is as it was.
ReservationServer_insert_raises(table, q) == table

\* The room server serves /reserve, get_reserve goes on to its INSERT, and
\* the INSERT raises.
CoordReserveRoomInsertRaises ==
    /\ coordUp /\ pc = "reserve_room" /\ roomUp
    /\ LET q == ReservationServer_room_request(request.query)
           s == RoomServe("/reserve", q, RoomDb)
       IN
       /\ ~ReservationServer_room_failed(s.received)
       /\ calls' = Append(calls, [to |-> "room", sub_url |-> "/reserve", query |-> q])
       /\ rooms' = s.db.rooms
       /\ slots' = s.db.slots
       /\ roomUp' = s.up
       /\ room_server_response' = s.received
       /\ records' = ReservationServer_insert_raises(records, request.query)
       /\ CoordCrash
    /\ UNCHANGED <<activities, activity_server_response, submitted, sent, probe, loopVars>>

NextFault ==
    \/ Next
    \/ CoordReserveRoomInsertRaises

SpecFault == Init /\ [][NextFault]_vars

----------------------------------------------------------------------------
(* What the clients observe. *)

\* The step is the room server answering a client's own request.  A request
\* repeated with the same answer shows as no new exchange; such an answer
\* changed nothing, and its first occurrence was an exchange of its own.
RoomAnswers(sub_url) == out' # out /\ out'.from = "room" /\ out'.sub_url = sub_url

\* The step is get_reserve of the reservation server receiving the room
\* server's answer and running to its return.
RoomAnswersReservationServer == pc = "reserve_room" /\ pc' = "idle"

\* The parameters the room server's reserve accepts.
ValidBlock(q) ==
    /\ 1 <= q.day /\ q.day <= 7
    /\ 9 <= q.hour /\ q.hour <= 17
    /\ q.hour + q.duration <= 18

\* The hours of the block hour .. hour + duration - 1.
Block(q) == {q.hour + k : k \in 0 .. q.duration - 1}

Occupied(name, day, hour) == BagIn(Row(name, day, hour), slots)

FreeHours(name, day) == {h \in 9 .. 17 : ~Occupied(name, day, h)}

\* What availability(name, day) answers on the tables db, and in the current state.
AvailabilityOn(db, name, day) ==
    RoomServer_get_check_availability([name |-> name, day |-> day], db).response

Availability(name, day) == AvailabilityOn(RoomDb, name, day)

IsAscending(list) == \A i \in 1 .. Len(list) - 1 : list[i] < list[i + 1]

Members(list) == {list[i] : i \in 1 .. Len(list)}

\* The error classes of the room server, told apart by what the body says.
IsInvalidParameter(response) ==
    /\ response.code = "400 Bad Request"
    /\ response.text \in {"Invalid day parameter", "Invalid hour parameter",
                          "Invalid duration parameter"}

IsNotFound(response) ==
    response.text \in {"Room does not exist", "Room Does not exist"}

IsConflict(response) ==
    response.code = "403 Forbidden" /\ response.text = "Room is already reserved at"

IsSuccess(response) == response.code = "200 OK"

----------------------------------------------------------------------------
(* C1: no slot (room, day, hour) is claimed by more than one successful     *)
(* reserve.  Rows enter the room server's table only in a reserve that     *)
(* answers 200, one row per hour of its block, and no row ever leaves, so  *)
(* the copies of a row count the successful reserves that claimed the slot.*)
C1_NoDoubleBooking ==
    \A row \in BagToSet(slots) : CopiesIn(row, slots) <= 1

(* C2: a reserve with valid parameters on a known room answers Conflict    *)
(* exactly when some hour of its block is occupied, and succeeds only when *)
(* every hour of the block is free.                                        *)
C2_ConflictIffAnyHourOccupied ==
    [][RoomAnswers("/reserve") =>
        LET q == out'.query IN
        (ValidBlock(q) /\ q.name \in rooms) =>
            /\ IsConflict(out'.response) <=>
                   (\E h \in Block(q) : Occupied(q.name, q.day, h))
            /\ IsSuccess(out'.response) =>
                   (\A h \in Block(q) : ~Occupied(q.name, q.day, h))]_vars

(* C3: a reserve that answers Conflict, InvalidParameter or NotFound       *)
(* leaves the rooms and the occupied slots as they were, so availability   *)
(* answers for every room and day what it answered before.                 *)
C3_FailedReserveChangesNothing ==
    [][(RoomAnswers("/reserve")
        /\ (IsConflict(out'.response) \/ IsInvalidParameter(out'.response)
            \/ IsNotFound(out'.response))) =>
        /\ slots' = slots
        /\ rooms' = rooms
        /\ \A n \in RoomNames, d \in 1 .. 7 :
               AvailabilityOn(RoomDb', n, d) = AvailabilityOn(RoomDb, n, d)]_vars

\* A Conflict was answered for a two-hour block whose second hour is free.
C3_Witness ==
    /\ out.from = "room" /\ out.sub_url = "/reserve"
    /\ IsConflict(out.response)
    /\ out.query.duration = 2
    /\ ~Occupied(out.query.name, out.query.day, out.query.hour + 1)

(* C4: a reserve of the reservation server for an activity the activity    *)
(* server does not have answers the activity server's 404, makes no call   *)
(* to the room server, leaves rooms and slots as they were and appends no  *)
(* record.                                                                 *)
C4_MissingActivityStopsReserve ==
    [][(pc = "reserve_activity" /\ pc' # pc /\ request.query.activity \notin activities) =>
        /\ pc' = "idle"
        /\ out'.from = "reservation" /\ out'.query = request.query
        /\ out'.response.code = "404 Not Found"
        /\ out'.response.text = "Activity does not exist"
        /\ \A i \in 1 .. Len(calls') : calls'[i].to # "room"
        /\ slots' = slots /\ rooms' = rooms
        /\ records' = records]_vars

\* The 404 was answered to a reserve the room server would have granted.
C4_Witness ==
    /\ out.from = "reservation" /\ out.sub_url = "/reserve"
    /\ out.response.code = "404 Not Found"
    /\ out.query.room \in rooms
    /\ ValidBlock(out.query) /\ out.query.duration > 0
    /\ \A h \in Block(out.query) : ~Occupied(out.query.room, out.query.day, h)

(* C5: a record is appended only in a reserve in which the activity server *)
(* answered that the activity exists and the room server answered success; *)
(* any other answer of the room server, a missing or empty one included,   *)
(* appends nothing.                                                        *)
C5_RecordOnlyAfterBothSucceed ==
    [][records' # records =>
        /\ activity_server_response'.code = "200 OK"
        /\ IsSuccess(room_server_response')]_vars

(* C6: when the room server rejects the reservation server's reserve call  *)
(* with InvalidParameter, NotFound or Conflict, the client is answered the *)
(* room server's response unchanged, and the records, the rooms and the    *)
(* slots stay as they were.                                                *)
C6_RoomFailureRelayed ==
    [][(RoomAnswersReservationServer
        /\ (IsConflict(room_server_response') \/ IsInvalidParameter(room_server_response')
            \/ IsNotFound(room_server_response'))) =>
        /\ room_server_response' =
               RoomServe("/reserve", ReservationServer_room_request(request.query),
                         RoomDb).received
        /\ out'.from = "reservation" /\ out'.query = request.query
        /\ out'.response = room_server_response'
        /\ records' = records
        /\ slots' = slots /\ rooms' = rooms]_vars

\* A Conflict of the room server reached the reservation server's client.
C6_Witness ==
    /\ out.from = "reservation" /\ out.sub_url = "/reserve"
    /\ IsConflict(out.response)
    /\ pc = "idle"

\* In every state, what availability would answer for a known room and a
\* day 1..7: ascending, and just the hours 9..17 with no row.
C7_AvailabilityListsFreeHours ==
    \A n \in rooms, d \in 1 .. 7 :
        /\ Availability(n, d).code = "200 OK"
        /\ IsAscending(Availability(n, d).nums)
        /\ Members(Availability(n, d).nums) = FreeHours(n, d)

\* What a client that asked for availability was answered.
C7_AvailabilityAnswer ==
    [][RoomAnswers("/checkavailability") =>
        LET q == out'.query IN
        (q.name \in rooms /\ 1 <= q.day /\ q.day <= 7) =>
            /\ IsSuccess(out'.response)
            /\ IsAscending(out'.response.nums)
            /\ Members(out'.response.nums) = FreeHours(q.name, q.day)]_vars

\* What a granted reserve does to the answers of availability.
C7_ReserveRemovesItsBlock ==
    [][RoomAnswers("/reserve") /\ IsSuccess(out'.response) =>
        LET q == out'.query IN
        /\ Members(AvailabilityOn(RoomDb', q.name, q.day).nums) =
               Members(AvailabilityOn(RoomDb, q.name, q.day).nums) \ Block(q)
        /\ \A n \in RoomNames, d \in 1 .. 7 :
               (n # q.name \/ d # q.day) =>
                   AvailabilityOn(RoomDb', n, d) = AvailabilityOn(RoomDb, n, d)]_vars

(* C7: availability on a known room and a day 1..7 lists, ascending, just  *)
(* the hours 9..17 with no row for that room and day; and a successful     *)
(* reserve(R, D, h, n) takes exactly h .. h+n-1 out of the free hours of   *)
(* (R, D) and changes the answer for no other room or day.                 *)
C7_Availability ==
    /\ []C7_AvailabilityListsFreeHours
    /\ C7_AvailabilityAnswer
    /\ C7_ReserveRemovesItsBlock

\* A two-hour reserve was granted and availability lacks both its hours.
C7_Witness ==
    /\ out.from = "room" /\ out.sub_url = "/reserve"
    /\ IsSuccess(out.response)
    /\ out.query.duration = 2
    /\ Block(out.query) \cap Members(Availability(out.query.name, out.query.day).nums) = {}

(* C8: for every reserve the reservation server answered with an id, a     *)
(* display of that id in any later state shows the room, the activity, the *)
(* day, the hour and the duration that were submitted.                     *)
C8_DisplayRoundTrip ==
    /\ \A id \in DOMAIN submitted :
          LET page == ReservationServer_get_display([id |-> id], records)
              q == submitted[id]
          IN /\ page.code = "200 OK"
             /\ page.names = <<q.room, q.activity, day_names[q.day]>>
             /\ page.nums = <<q.hour, q.hour + q.duration, q.duration>>
    /\ (out.from = "reservation" /\ out.sub_url = "/display"
        /\ out.query.id \in DOMAIN submitted) =>
          LET q == submitted[out.query.id] IN
          /\ out.response.code = "200 OK"
          /\ out.response.names = <<q.room, q.activity, day_names[q.day]>>
          /\ out.response.nums = <<q.hour, q.hour + q.duration, q.duration>>

\* A client displayed a reservation that a reserve had been given the id of.
C8_Witness ==
    /\ out.from = "reservation" /\ out.sub_url = "/display"
    /\ out.query.id \in DOMAIN submitted
    /\ submitted[out.query.id].duration > 0

(* C9: reserve answers InvalidParameter exactly when not (1 <= day <= 7    *)
(* and 9 <= hour <= 17 and hour + duration <= 18); reserve(day 7, hour 17, *)
(* duration 1) on a known room with that hour free succeeds, and a reserve *)
(* of hour 17 for duration 2 answers InvalidParameter.                     *)
C9_ReserveValidation ==
    [][RoomAnswers("/reserve") =>
        LET q == out'.query IN
        /\ IsInvalidParameter(out'.response) <=> ~ValidBlock(q)
        /\ (q.day = 7 /\ q.hour = 17 /\ q.duration = 1 /\ q.name \in rooms
            /\ ~Occupied(q.name, 7, 17)) => IsSuccess(out'.response)
        /\ (q.hour = 17 /\ q.duration = 2) => IsInvalidParameter(out'.response)]_vars

\* reserve(day 7, hour 17, duration 1) was granted.
C9_Witness ==
    /\ out.from = "room" /\ out.sub_url = "/reserve"
    /\ out.query.day = 7 /\ out.query.hour = 17 /\ out.query.duration = 1
    /\ IsSuccess(out.response)

(* C10: register(name) answers AlreadyExists and changes nothing when the  *)
(* room is present; otherwise it adds the room, and the new room has no    *)
(* occupied slot: availability answers all of 9..17 for each day 1..7,     *)
(* whatever was done under that name before.                               *)
C10_RegisterCreatesEmptyRoom ==
    [][RoomAnswers("/add") =>
        LET name == out'.query.name IN
        IF name \in rooms
        THEN /\ out'.response.code = "403 Forbidden"
             /\ out'.response.text = "Room already exists"
             /\ rooms' = rooms /\ slots' = slots
        ELSE /\ IsSuccess(out'.response)
             /\ rooms' = rooms \cup {name}
             /\ \A d \in 1 .. 7 :
                    AvailabilityOn(RoomDb', name, d).nums = <<9, 10, 11, 12, 13, 14, 15, 16, 17>>]_vars

(* C11: deregister answers NotFound and changes nothing when the room is   *)
(* absent; otherwise it removes the room's entry alone and leaves every    *)
(* reservation row in place.  A name enters the rooms only by a register   *)
(* of it, and while it is absent every availability for it, and every      *)
(* reserve for it that passes the validation of day, hour and duration,    *)
(* answers NotFound and changes nothing.                                   *)
C11_DeregisterRemovesOnlyTheRoom ==
    [][/\ RoomAnswers("/remove") =>
            LET name == out'.query.name IN
            IF name \notin rooms
            THEN IsNotFound(out'.response) /\ rooms' = rooms /\ slots' = slots
            ELSE /\ IsSuccess(out'.response)
                 /\ rooms' = rooms \ {name}
                 /\ slots' = slots
       /\ \A n \in rooms' \ rooms : RoomAnswers("/add") /\ out'.query.name = n
       /\ (RoomAnswers("/reserve") /\ out'.query.name \notin rooms /\ ValidBlock(out'.query)) =>
            IsNotFound(out'.response) /\ rooms' = rooms /\ slots' = slots
       /\ (RoomAnswers("/checkavailability") /\ out'.query.name \notin rooms) =>
            IsNotFound(out'.response) /\ rooms' = rooms /\ slots' = slots]_vars

\* A reserve was answered NotFound for a deregistered room whose hour is
\* still in the reservations.
C11_Witness ==
    /\ out.from = "room" /\ out.sub_url = "/reserve"
    /\ IsNotFound(out.response)
    /\ out.query.name \notin rooms
    /\ ValidBlock(out.query)
    /\ Occupied(out.query.name, out.query.day, out.query.hour)

\* The step is one turn of get_listavailability's loop for a request that
\* named no day, the room server being there to answer.
ListWeekTurn ==
    /\ pc = "list" /\ calls' # calls
    /\ "day" \notin DOMAIN request.query
    /\ roomUp

C12_WitnessWeek ==
    /\ out.from = "reservation" /\ out.sub_url = "/listavailability"
    /\ "day" \notin DOMAIN out.query
    /\ Len(out.response.parts) = 7
    /\ \E i \in 1 .. 7 : out.response.parts[i].nums # out.response.parts[1].nums

\* The step is the turn of get_listavailability's loop for a request that
\* named its day.
ListDayTurn ==
    /\ pc = "list" /\ calls' # calls
    /\ "day" \in DOMAIN request.query

\* Reservation id was granted by the reservation server for this room and
\* day, the room is registered, and the reservations of the room on that day
\* are the hours of id's block and no other.
OnlyBooking(id, room, day) ==
    /\ id \in DOMAIN submitted
    /\ submitted[id].room = room /\ submitted[id].day = day
    /\ room \in rooms
    /\ {h \in 9 .. 17 : Occupied(room, day, h)} = Block(submitted[id])
    /\ \A row \in BagToSet(slots) :
           (row[1] = room /\ row[2] = day) => CopiesIn(row, slots) = 1

\* The scenario with the room server's loop still running.
C13_ScenarioWhileRoomServerRuns ==
    [][(ListDayTurn /\ roomUp) =>
        \A id \in DOMAIN submitted :
            OnlyBooking(id, request.query.room, request.query.day) =>
                /\ out'.response.code = "200 OK"
                /\ Len(out'.response.parts) = 1
                /\ out'.response.parts[1].day = day_names[request.query.day]
                /\ IsAscending(out'.response.parts[1].nums)
                /\ Members(out'.response.parts[1].nums) = (9 .. 17) \ Block(submitted[id])]_vars

(* C13: once the reservation server has granted reserve(activity, room, d, *)
(* h, n) on a registered room with no other booking on day d, a            *)
(* listavailability(room, day = d) is answered with the hours 9..17 less   *)
(* h .. h+n-1, in ascending order, under the name of day d.                *)
C13_ScenarioListAfterReserve ==
    [][ListDayTurn =>
        \A id \in DOMAIN submitted :
            OnlyBooking(id, request.query.room, request.query.day) =>
                /\ out'.response.code = "200 OK"
                /\ Len(out'.response.parts) = 1
                /\ out'.response.parts[1].day = day_names[request.query.day]
                /\ IsAscending(out'.response.parts[1].nums)
                /\ Members(out'.response.parts[1].nums) = (9 .. 17) \ Block(submitted[id])]_vars

\* The list was answered after a granted reserve of two hours.
C13_Witness ==
    /\ out.from = "reservation" /\ out.sub_url = "/listavailability"
    /\ "day" \in DOMAIN out.query
    /\ \E id \in DOMAIN submitted :
           /\ OnlyBooking(id, out.query.room, out.query.day)
           /\ submitted[id].duration = 2
    /\ out.response.code = "200 OK"

(* C14: every record of the reservation server's table has a day in 1..7,  *)
(* an hour in 9..17 and hour + duration <= 18, in every reachable state.   *)
C14_RecordsAreValidBlocks ==
    \A i \in 1 .. Len(records) :
        /\ 1 <= records[i].day /\ records[i].day <= 7
        /\ 9 <= records[i].hour /\ records[i].hour <= 17
        /\ records[i].hour + records[i].duration <= 18

\* With a record in the table, a reserve outside the limits was refused.
C14_Witness ==
    /\ Len(records) >= 1
    /\ out.from = "reservation" /\ out.sub_url = "/reserve"
    /\ ~ValidBlock(out.query)
    /\ IsInvalidParameter(out.response)

\* The step is the reservation server accepting and answering a display.
DisplayAnswers ==
    /\ pc = "idle" /\ pc' = "idle" /\ sent' # sent
    /\ out'.from = "reservation" /\ out'.sub_url = "/display"

(* C15: display(id) answers 404 Not Found exactly when the table has no    *)
(* record with that id; otherwise it answers 200 with that record's room   *)
(* and activity, the name of its day (1 Monday .. 7 Sunday) and the times  *)
(* hour and hour + duration.  The table is left as it was.                 *)
C15_DisplayFindsTheRecord ==
    [][DisplayAnswers =>
        LET id == out'.query.id
            found == {i \in 1 .. Len(records) : records[i].id = id}
            said == out'.response
        IN
        /\ (said.code = "404 Not Found") <=> (found = {})
        /\ \A i \in found :
               /\ said.code = "200 OK"
               /\ said.names = <<records[i].room, records[i].activity,
                                 day_names[records[i].day]>>
               /\ said.nums = <<records[i].hour, records[i].hour + records[i].duration,
                                records[i].duration>>
        /\ records' = records]_vars

\* A record of day 7 was displayed as Sunday.
C15_Witness ==
    /\ out.from = "reservation" /\ out.sub_url = "/display"
    /\ out.response.code = "200 OK"
    /\ out.response.names[3] = "Sunday"
    /\ \E i \in 1 .. Len(records) : records[i].id = out.query.id /\ records[i].day = 7

\* An id the table does not have was answered 404, the table not empty.
C15_WitnessNotFound ==
    /\ out.from = "reservation" /\ out.sub_url = "/display"
    /\ out.response.code = "404 Not Found"
    /\ Len(records) >= 1

\* The step is the activity server answering a client's own request.
ActivityAnswers(sub_url) ==
    out' # out /\ out'.from = "activity" /\ out'.sub_url = sub_url

(* C16: every answer carries the status of its outcome: 200 for success,   *)
(* 400 for a parameter out of range and for an unknown sub-path, 403 for a *)
(* room or activity that already exists and for an occupied hour, 404 for  *)
(* an unknown room in remove, reserve and checkavailability, for an        *)
(* unknown activity and for an unknown reservation id.                     *)
C16_StatusOfEachOutcome ==
    [][LET q == out'.query
           code == out'.response.code
       IN
       /\ RoomAnswers("/add") =>
              code = IF q.name \in rooms THEN "403 Forbidden" ELSE "200 OK"
       /\ RoomAnswers("/remove") =>
              code = IF q.name \notin rooms THEN "404 Not Found" ELSE "200 OK"
       /\ RoomAnswers("/reserve") =>
              /\ ~ValidBlock(q) => code = "400 Bad Request"
              /\ (ValidBlock(q) /\ q.name \notin rooms) => code = "404 Not Found"
              /\ IsConflict(out'.response) => code = "403 Forbidden"
              /\ slots' # slots => code = "200 OK"
       /\ RoomAnswers("/checkavailability") =>
              code = IF q.name \notin rooms THEN "404 Not Found"
                     ELSE IF ~(1 <= q.day /\ q.day <= 7) THEN "400 Bad Request"
                     ELSE "200 OK"
       /\ ActivityAnswers("/add") =>
              code = IF q.name \in activities THEN "403 Forbidden" ELSE "200 OK"
       /\ ActivityAnswers("/remove") =>
              code = IF q.name \notin activities THEN "404 Not Found" ELSE "200 OK"
       /\ ActivityAnswers("/check") =>
              code = IF q.name \notin activities THEN "404 Not Found" ELSE "200 OK"
       /\ DisplayAnswers =>
              code = IF \E i \in 1 .. Len(records) : records[i].id = q.id
                     THEN "200 OK" ELSE "404 Not Found"
       /\ RoomServer_handle_request("/", q, RoomDb).response.code = "400 Bad Request"
       /\ ActivityServer_handle_request("/", q, activities).response.code = "400 Bad Request"
      ]_vars

\* The order of the steps of one get_reserve, whatever the answers: one
\* /check to the activity server, then and only after its 200 one /reserve
\* to the room server, then the return; no step twice, none backwards.
C17_SagaOrder ==
    [][/\ (pc = "reserve_activity" /\ pc' # pc) =>
              /\ calls = <<>>
              /\ calls' = <<[to |-> "activity", sub_url |-> "/check",
                             query |-> [name |-> request.query.activity]]>>
              /\ pc' = IF activity_server_response'.code = "200 OK"
                       THEN "reserve_room" ELSE "idle"
              /\ records' = records /\ slots' = slots
       /\ (pc = "reserve_room" /\ pc' # pc) =>
              /\ Len(calls) = 1 /\ calls[1].to = "activity"
              /\ activity_server_response.code = "200 OK"
              /\ calls' = Append(calls, [to |-> "room", sub_url |-> "/reserve",
                                         query |-> ReservationServer_room_request(request.query)])
              /\ pc' \in {"idle", "crashed"}
       /\ pc' = "reserve_room" => pc \in {"reserve_activity", "reserve_room"}
       /\ pc' = "reserve_activity" => pc \in {"idle", "reserve_activity"}
       /\ (pc \in {"reserve_activity", "reserve_room"} /\ pc' = pc) => calls' = calls
       /\ records' # records => (pc = "reserve_room" /\ pc' = "idle")]_vars

\* A record is appended only in the step that received the room server's
\* success.
C17_CommitAfterRoomSuccess ==
    [][records' # records =>
        /\ pc = "reserve_room"
        /\ Len(records') = Len(records) + 1
        /\ IsSuccess(room_server_response')]_vars

(* C17: a reserve of the reservation server goes forward only: one check   *)
(* to the activity server, the reserve call to the room server only after  *)
(* the activity was found, the record only after the room server answered  *)
(* success, and no step a second time; any other answer ends the attempt.  *)
C17_SagaForwardOnly == C17_SagaOrder /\ C17_CommitAfterRoomSuccess

\* The room server has at most one request in progress, and its loop is at
\* accept just when it has none.
C18_OneRequestInProgress ==
    /\ Cardinality(inProgress) <= 1
    /\ (loopAt = "accept") <=> (inProgress = {})

\* While a reserve is between its SELECT and its last INSERT, every step of
\* the room server is a step of that reserve.
C18_NothingBetweenCheckAndOccupy ==
    [][\A h \in inProgress :
          (h.sub_url = "/reserve" /\ h.at = "insert") =>
              /\ \A g \in inProgress' : g.sub_url = "/reserve" /\ g.query = h.query
              /\ out' # out => (out'.sub_url = "/reserve" /\ out'.query = h.query
                                /\ IsSuccess(out'.response))
              /\ rooms' = rooms
              /\ \A row \in BagToSet(slots') :
                     CopiesIn(row, slots') # CopiesIn(row, slots) =>
                         /\ row[1] = h.query.name /\ row[2] = h.query.day
                         /\ row[3] \in Block(h.query)]_vars

\* The hours an availability answers show each block of a granted reserve
\* wholly occupied, and the block of a reserve past its SELECT wholly
\* occupied or not yet touched.
C18_NoPartialBlockInAvailability ==
    [][(RoomAnswers("/checkavailability") /\ IsSuccess(out'.response)) =>
        LET q == out'.query
            free == Members(out'.response.nums)
        IN
        /\ \A b \in granted :
               (b.name = q.name /\ b.day = q.day) => Block(b) \cap free = {}
        /\ \A h \in inProgress :
               (h.sub_url = "/reserve" /\ h.at = "insert"
                /\ h.query.name = q.name /\ h.query.day = q.day) =>
                   h.d = 0 \/ Block(h.query) \cap free = {}]_vars

C18_WitnessBetweenInserts ==
    \E h \in inProgress : h.at = "insert" /\ h.d = 1 /\ h.query.duration = 2

\* The step is the reservation server accepting a listavailability that
\* names its day.
ListDayAccepted ==
    /\ pc = "idle" /\ request' # request
    /\ request'.sub_url = "/listavailability"
    /\ "day" \in DOMAIN request'.query

(* C19: a listavailability with a day makes one checkavailability call to  *)
(* the room server, for that room and day, and for every day outside 1..7, *)
(* below 1 as well as above 7, the client is sent the room server's        *)
(* InvalidParameter answer.                                                *)
C19_ListDayOutOfRange ==
    [][/\ ListDayAccepted =>
              /\ pc' = "list"
              /\ Len(request_strings') = 1
              /\ calls' = <<>>
       /\ (ListDayTurn /\ roomUp) =>
              LET q == request.query
                  answer == AvailabilityOn(RoomDb, q.room, q.day)
              IN
              /\ calls' = <<[to |-> "room", sub_url |-> "/checkavailability",
                             query |-> [name |-> q.room, day |-> q.day]]>>
              /\ pc' = "idle"
              /\ (q.room \in rooms /\ ~(1 <= q.day /\ q.day <= 7)) =>
                     /\ out'.response = answer
                     /\ answer.code = "400 Bad Request"
                     /\ answer.text = "Invalid day paramater"]_vars

\* The ids of the records are pairwise distinct.
C20_IdsAreDistinct ==
    \A i, j \in 1 .. Len(records) : records[i].id = records[j].id => i = j

\* A reserve the reservation server answers with an id appends one record,
\* of that id, an id no earlier record has; every other end of a reserve,
\* and every other step, leaves the table as it was.
C20_OneRecordPerGrantedReserve ==
    [][IF pc \in {"reserve_activity", "reserve_room"} /\ pc' \in {"idle", "crashed"}
          /\ out'.response.title = "Reservation Succesfull"
       THEN /\ Len(records') = Len(records) + 1
            /\ SubSeq(records', 1, Len(records)) = records
            /\ \A i \in 1 .. Len(records) : records[i].id # records'[Len(records')].id
            /\ out'.response.nums = <<records'[Len(records')].id>>
       ELSE records' = records]_vars

(* C20: each reserve the reservation server grants appends exactly one     *)
(* record, whose id no record already in the table has, so the ids of the  *)
(* records are pairwise distinct in every reachable state; a reserve that  *)
(* fails appends nothing.                                                  *)
C20_FreshIdPerReserve ==
    /\ []C20_IdsAreDistinct
    /\ C20_OneRecordPerGrantedReserve

\* A second reserve was granted and given the id 2.
C20_Witness ==
    /\ Len(records) = 2
    /\ out.from = "reservation" /\ out.sub_url = "/reserve"
    /\ out.response.title = "Reservation Succesfull"
    /\ out.response.nums = <<2>>
    /\ records[2].duration > 0

\* The step is get_reserve of the reservation server raising in its INSERT
\* after the room server granted the block.
InsertRaisedAfterGrant ==
    /\ pc = "reserve_room" /\ pc' = "crashed"
    /\ IsSuccess(room_server_response')

(* C21: when the reservation server's INSERT fails after the room server   *)
(* granted the reserve, every hour of the block is occupied on the room    *)
(* server, the table has gained no record, and the reservation server      *)
(* makes no further call to the room server: the one call of the attempt   *)
(* is the reserve itself, and none follows it.                             *)
C21_NoCompensationAfterFailedWrite ==
    [][/\ InsertRaisedAfterGrant =>
              LET q == request.query IN
              /\ \A h \in Block(q) : BagIn(Row(q.room, q.day, h), slots')
              /\ slots' # slots
              /\ records' = records
              /\ submitted' = submitted
              /\ calls' = Append(calls, [to |-> "room", sub_url |-> "/reserve",
                                         query |-> ReservationServer_room_request(q)])
              /\ \A i \in 1 .. Len(calls) : calls[i].to # "room"
       /\ pc = "crashed" =>
              /\ pc' = "crashed" /\ calls' = calls /\ records' = records
              /\ \A row \in BagToSet(slots) : CopiesIn(row, slots') >= CopiesIn(row, slots)]_vars

\* The INSERT failed for a granted block of two hours: both hours are
\* occupied and the table has no record.
C21_Witness ==
    /\ pc = "crashed" /\ request.sub_url = "/reserve"
    /\ IsSuccess(room_server_response)
    /\ request.query.duration = 2
    /\ records = <<>>
    /\ \A h \in Block(request.query) :
           Occupied(request.query.room, request.query.day, h)

(* C22: reserve validates day, hour and duration before it looks up the    *)
(* room, so on an unknown room with a parameter out of range it answers    *)
(* InvalidParameter; checkavailability looks up the room before it         *)
(* validates the day, so on an unknown room with a day out of range it     *)
(* answers NotFound.                                                       *)
C22_OrderOfChecks ==
    [][LET q == out'.query IN
       /\ (RoomAnswers("/reserve") /\ q.name \notin rooms /\ ~ValidBlock(q)) =>
              /\ IsInvalidParameter(out'.response)
              /\ ~IsNotFound(out'.response)
       /\ (RoomAnswers("/checkavailability") /\ q.name \notin rooms
           /\ ~(1 <= q.day /\ q.day <= 7)) =>
              /\ IsNotFound(out'.response)
              /\ out'.response.text # "Invalid day paramater"]_vars

\* checkavailability for an unknown room and day 8 was answered NotFound.
C22_Witness ==
    /\ out.from = "room" /\ out.sub_url = "/checkavailability"
    /\ out.query.name \notin rooms /\ out.query.day = 8
    /\ IsNotFound(out.response)

\* reserve for an unknown room and hour 18 was answered InvalidParameter.
C22_WitnessReserve ==
    /\ out.from = "room" /\ out.sub_url = "/reserve"
    /\ out.query.name \notin rooms /\ out.query.hour = 18
    /\ IsInvalidParameter(out.response)

\* The number of the four outcomes of reserve that a response is.
OutcomesOf(response) ==
    Cardinality({k \in {"Success", "InvalidParameter", "NotFound", "Conflict"} :
        \/ k = "Success" /\ IsSuccess(response)
        \/ k = "InvalidParameter" /\ IsInvalidParameter(response)
        \/ k = "NotFound" /\ IsNotFound(response)
        \/ k = "Conflict" /\ IsConflict(response)})

(* C23: every reserve with integer day, hour and duration, the durations 0 *)
(* and below included, is answered with exactly one of Success,            *)
(* InvalidParameter, NotFound and Conflict, and the room server then       *)
(* accepts the next request.                                               *)
C23_ReserveIsTotal ==
    [][RoomAnswers("/reserve") =>
        /\ OutcomesOf(out'.response) = 1
        /\ roomUp']_vars

(* C24: in every reachable state, for every record (room, day, hour,       *)
(* duration) of the reservation server's table, each slot (room, day,      *)
(* hour + k) with 0 <= k < duration has a row in the room server's table.  *)
C24_RecordsHaveTheirSlots ==
    \A i \in 1 .. Len(records) :
        \A k \in 0 .. records[i].duration - 1 :
            Occupied(records[i].room, records[i].day, records[i].hour + k)

\* A record of two hours is held for a room since deregistered.
C24_Witness ==
    \E i \in 1 .. Len(records) :
        /\ records[i].duration = 2
        /\ records[i].room \notin rooms

(* C25: no step of any server takes a row out of the room server's         *)
(* reservations: the occupied slots of a state include those of every      *)
(* earlier state.                                                          *)
C25_SlotsOnlyGrow ==
    [][\A row \in BagToSet(slots) : CopiesIn(row, slots') >= CopiesIn(row, slots)]_vars

\* A room with an occupied slot was deregistered and registered again, and
\* the slot is occupied still.
C25_Witness ==
    /\ out.from = "room" /\ out.sub_url = "/add"
    /\ IsSuccess(out.response)
    /\ \E row \in BagToSet(slots) : row[1] = out.query.name

\* The step is the room server serving a client's checkavailability.
RoomServesAvailability ==
    /\ sent' # sent /\ request' = request
    /\ out'.from = "room" /\ out'.sub_url = "/checkavailability"

\* The step is one of get_listavailability: its accept, a turn of its loop,
\* its return or its exception.
ListStep ==
    \/ pc = "idle" /\ request' # request /\ request'.sub_url = "/listavailability"
    \/ pc = "idle" /\ sent' # sent /\ out' # out
       /\ out'.from = "reservation" /\ out'.sub_url = "/listavailability"
    \/ pc = "list" /\ (pc' # pc \/ calls' # calls)

(* C26: checkavailability of the room server, listavailability and display *)
(* of the reservation server leave the rooms, the occupied slots and the   *)
(* reservation server's table as they were, whatever they answer; and no   *)
(* step of any server changes or removes a record the table has.           *)
C26_ReadOnlyOperations ==
    [][/\ (RoomServesAvailability \/ ListStep \/ DisplayAnswers) =>
              /\ rooms' = rooms
              /\ slots' = slots
              /\ records' = records
       /\ Len(records') >= Len(records)
       /\ SubSeq(records', 1, Len(records)) = records]_vars

\* A listavailability for the week was answered with a record in the table
\* and an hour occupied.
C26_Witness ==
    /\ out.from = "reservation" /\ out.sub_url = "/listavailability"
    /\ Len(out.response.parts) = 7
    /\ Len(records) >= 1
    /\ slots # EmptyBag

\* The reservation server has accepted a reserve or a listavailability and
\* its handler has not returned.
CoordInHandler == pc \in {"reserve_activity", "reserve_room", "list"}

\* The reservation server has written a response to the request it accepted.
CoordAnswered ==
    /\ pc = "idle"
    /\ out.from = "reservation"
    /\ out.response # Empty

(* C27: with the three loops scheduled, every reserve and listavailability *)
(* the reservation server has accepted is answered: its handler returns    *)
(* and a response is written to the client.                                *)
C27_AcceptedIsAnswered == CoordInHandler ~> CoordAnswered

(* C27, as a run of finite length refutes it: no request the reservation   *)
(* server has accepted has its connection closed with nothing written.     *)
C27_NoRequestLeftUnanswered ==
    ~(/\ pc = "crashed"
      /\ out.from = "reservation"
      /\ out.response = Empty)

====
